---- MODULE Spec2Model ----
(***************************************************************************)
(* cf-resolve-gh-ref: a worker that resolves a git reference of a GitHub   *)
(* repository to the sha it points to, by reading the reference            *)
(* advertisement of the smart-HTTP transfer protocol (src/index.js).       *)
(*                                                                         *)
(* Text the code takes apart (the advertisement, ref, the search terms) is *)
(* a sequence of one-character strings, so that split, substr, startsWith  *)
(* and the symref pattern are computed as JavaScript computes them.  Text  *)
(* the code only tests for emptiness and interpolates (owner, repo, the    *)
(* credentials) is a TLA+ string, NULL standing for an absent value.       *)
(***************************************************************************)
EXTENDS Integers, Sequences, FiniteSets, TLC

VARIABLES
    pc,         \* where the invocation of handleRequest stands
    request,    \* the inbound request: query parameters and the token header
    outbound,   \* the requests handed to fetch, in order
    remote,     \* what the outbound call settled with
    settled,    \* what the promise returned by resolve settled with
    responses   \* the Responses handleRequest's promise resolved with

vars == <<pc, request, outbound, remote, settled, responses>>

----------------------------------------------------------------------------
(* Bounds *)

\* The most lines an advertisement holds.
MaxLines == 4

----------------------------------------------------------------------------
(* Text *)

NULL == "<null>"
LF == "\n"
SP == " "

\* An optional text: <<>> is null/undefined, <<s>> is the text s.
None == <<>>
Some(s) == <<s>>

\* JavaScript truthiness of an optional string held as a TLA+ string.
Truthy(s) == s # NULL /\ s # ""

\* String.prototype.split with a one-character separator: always at least
\* one part, an empty part between adjacent separators.
Split(s, sep) ==
    LET at == {i \in 1..Len(s) : s[i] = sep}
        \* Where the k-th separator stands; 0 and Len(s) + 1 close the ends.
        Cut(k) == IF k = 0 THEN 0
                  ELSE IF k > Cardinality(at) THEN Len(s) + 1
                  ELSE CHOOSE i \in at : Cardinality({j \in at : j <= i}) = k
    IN  [k \in 1..(Cardinality(at) + 1) |->
            SubSeq(s, Cut(k - 1) + 1, Cut(k) - 1)]

\* Array.prototype.join with a one-character separator.
Join(parts, sep) ==
    LET F[i \in 0..Len(parts)] ==
            IF i = 0 THEN <<>>
            ELSE IF i = 1 THEN parts[1]
            ELSE F[i - 1] \o <<sep>> \o parts[i]
    IN  F[Len(parts)]

\* String.prototype.substr(n), to the end of the string.
Substr(s, n) == SubSeq(s, n + 1, Len(s))

StartsWith(s, prefix) ==
    Len(s) >= Len(prefix) /\ SubSeq(s, 1, Len(prefix)) = prefix

Includes(terms, t) == \E i \in 1..Len(terms) : terms[i] = t

REFS == <<"r", "e", "f", "s", "/">>
HEADS == REFS \o <<"h", "e", "a", "d", "s", "/">>
TAGS == REFS \o <<"t", "a", "g", "s", "/">>
SYMREF == <<"s", "y", "m", "r", "e", "f", "=", "H", "E", "A", "D", ":">>

\* \S of the pattern: anything but white space.
NonSpace(c) == c \notin {SP, LF, "\t", "\r"}

\* line.match(/symref=HEAD:(\S+)/): None when the pattern matches nowhere,
\* otherwise Some(group 1) of the leftmost match, the group taken greedily.
MatchSymref(line) ==
    LET n == Len(line)
        k == Len(SYMREF)
        hits == {i \in 1..n : /\ i + k <= n
                              /\ SubSeq(line, i, i + k - 1) = SYMREF
                              /\ NonSpace(line[i + k])}
    IN  IF hits = {} THEN None
        ELSE LET i == CHOOSE h \in hits : \A g \in hits : h <= g
                 ends == {j \in (i + k)..n :
                             \A m \in (i + k)..j : NonSpace(line[m])}
                 j == CHOOSE e \in ends : \A g \in ends : g <= e
             IN  Some(SubSeq(line, i + k, j))

----------------------------------------------------------------------------
(* The advertisements the remote service may answer with *)

PKTLEN == <<"0", "0", "3", "f">>
ShaA == <<"a">>
ShaB == <<"b">>
ShaC == <<"c">>
Main == <<"m">>

\* A pkt-line advertising one reference: 4 characters of length, the hash,
\* a space, the fully qualified name.
Pkt(sha, name) == PKTLEN \o sha \o <<SP>> \o name

\* "001e# service=git-upload-pack"
ServiceLine == <<"0", "0", "1", "e", "#", SP, "s", "v", "c">>

\* The first advertised reference: HEAD, then NUL and the capabilities, the
\* symref of HEAD among them.
HeadLine ==
    <<"0", "0", "0", "0">> \o Pkt(ShaA, <<"H", "E", "A", "D">>)
        \o <<"0", "c", "a", "p", SP>> \o SYMREF \o HEADS \o Main
        \o <<SP, "a", "g", "e", "n", "t">>

FlushLine == <<"0", "0", "0", "0">>

LinePool ==
    { ServiceLine, HeadLine, FlushLine,
      Pkt(ShaA, HEADS \o Main),
      Pkt(ShaC, HEADS \o Main),
      Pkt(ShaB, TAGS \o Main),
      Pkt(ShaB, HEADS \o Main) \o <<SP, "x">> }

Advertisements ==
    { Join(ls, LF) : ls \in UNION { [1..n -> LinePool] : n \in 0..MaxLines } }

\* Statuses the outbound call may complete with (Response.ok is 200..299).
RemoteStatuses == {200, 300, 401, 403, 404, 500, 503}
Ok(status) == status >= 200 /\ status <= 299

ErrorTexts == {"", "denied"}

Owners == {NULL, "", "adobe"}
Repos == {NULL, "", "helix-fetch"}
Refs == {None, Some(<<>>), Some(Main), Some(TAGS \o Main)}
ParamTokens == {NULL, "", "ptok"}
HeaderTokens == {NULL, "htok"}

----------------------------------------------------------------------------
(* Errors, results and responses *)

\* An Error object: its class, its status property (0: none) and message.
Err(type, status, text, args) ==
    [type |-> type, status |-> status, text |-> text, args |-> args]

NoErr == Err("", 0, "", <<>>)

Pending == [state |-> "pending", value |-> None, err |-> NoErr]
Fulfilled(v) == [state |-> "fulfilled", value |-> v, err |-> NoErr]
Rejected(e) == [state |-> "rejected", value |-> None, err |-> e]

\* What an array yields past its end.
UNDEFINED == <<"undefined">>

NoRemote == [kind |-> "none", status |-> 0, body |-> <<>>, text |-> ""]

Response(status, contentType, text, json, err) ==
    [status |-> status, contentType |-> contentType, text |-> text,
     json |-> json, err |-> err]

----------------------------------------------------------------------------
(* handleRequest: reading the request *)

\* Token with the header looked at first.
TokenHeaderFirst(req) ==
    IF Truthy(req.headerToken) THEN req.headerToken ELSE req.paramToken

\* params.get('GITHUB_TOKEN') || request.headers.get('x-github-token')
Token(req) ==
    IF Truthy(req.paramToken) THEN req.paramToken ELSE req.headerToken

----------------------------------------------------------------------------
(* resolve *)

\* Invalid only when both are missing.
InvalidBoth(owner, repo) == ~Truthy(owner) /\ ~Truthy(repo)

\* !owner || !repo
Invalid(owner, repo) == ~Truthy(owner) \/ ~Truthy(repo)

\* btoa: an encoding, told apart from its argument by the tag.
Btoa(s) == <<"base64">> \o s

\* The url and options handed to fetch.
FetchRequest(owner, repo, token) ==
    [owner |-> owner, repo |-> repo,
     authorization |-> IF Truthy(token)
                       THEN <<"Basic ">> \o Btoa(<<"any_user:", token>>)
                       ELSE <<>>]

\* RepositoryNotFound without the 401 case.
RepositoryNotFoundOn404(status, token) == status = 404

\* (resp.status === 401 && !token) || (resp.status === 404)
RepositoryNotFound(status, token) ==
    (status = 401 /\ ~Truthy(token)) \/ status = 404

\* The error resolve throws on a response that is not ok.
RemoteError(status, text, owner, repo, token) ==
    IF RepositoryNotFound(status, token)
    THEN Err("Error", 404, "repository not found: ", <<owner, "/", repo>>)
    ELSE Err("Error", status, "failed to fetch git repo info",
             <<ToString(status), text>>)

\* ref as a condition: neither null nor the empty string.
RefGiven(ref) == ref # None /\ ref[1] # <<>>

\* The search terms built from ref, before the advertisement is looked at.
RefTerms(ref) ==
    IF RefGiven(ref)
    THEN IF StartsWith(ref[1], REFS)
         THEN <<ref[1]>>
         ELSE <<HEADS \o ref[1], TAGS \o ref[1]>>
    ELSE <<>>

\* lines.slice(2)
StripHeader(lines) == SubSeq(lines, 3, Len(lines))

\* IsCandidate without the test on the number of parts.
IsCandidateAnyParts(row, searchTerms) ==
    LET parts == Split(row, SP)
    IN  Len(parts) >= 2 /\ Includes(searchTerms, parts[2])

\* The filter: parts.length === 2 && searchTerms.includes(parts[1])
IsCandidate(row, searchTerms) ==
    LET parts == Split(row, SP)
    IN  Len(parts) = 2 /\ Includes(searchTerms, parts[2])

\* Matches with the pkt-len left on the hash.
MatchesKeepLen(lines, searchTerms) ==
    LET Test(row) == IsCandidate(row, searchTerms)
        rows == SelectSeq(lines, Test)
    IN  [i \in 1..Len(rows) |-> Split(rows[i], SP)]

\* Matches in the order of the search terms: the lines of the first term
\* before those of the second.
MatchesByTerm(lines, searchTerms) ==
    LET Of(k) == LET Test(row) == IsCandidate(row, <<searchTerms[k]>>)
                 IN  SelectSeq(lines, Test)
        rows == IF Len(searchTerms) = 2 THEN Of(1) \o Of(2)
                ELSE IF Len(searchTerms) = 1 THEN Of(1)
                ELSE <<>>
    IN  [i \in 1..Len(rows) |-> Split(Substr(rows[i], 4), SP)]

\* lines.filter(...).map((row) => row.substr(4).split(' '))
Matches(lines, searchTerms) ==
    LET Test(row) == IsCandidate(row, searchTerms)
        rows == SelectSeq(lines, Test)
    IN  [i \in 1..Len(rows) |-> Split(Substr(rows[i], 4), SP)]

\* PickResult taking the last match.
PickLast(result) ==
    IF Len(result) > 0
    THEN Some([sha |-> result[Len(result)][1],
               fqRef |-> IF Len(result[Len(result)]) >= 2
                         THEN result[Len(result)][2]
                         ELSE UNDEFINED])
    ELSE None

\* result.length ? { sha: result[0][0], fqRef: result[0][1] } : null
PickResult(result) ==
    IF Len(result) > 0
    THEN Some([sha |-> result[1][1],
               fqRef |-> IF Len(result[1]) >= 2 THEN result[1][2]
                         ELSE UNDEFINED])
    ELSE None

\* resolve from the text of an ok response on: what its promise settles with.
ParseAdvertisement(data, ref) ==
    LET lines == Split(data, LF)
        head == IF Len(lines) >= 2 THEN MatchSymref(lines[2]) ELSE None
    IN  IF Len(lines) < 3
        THEN Rejected(Err("Error", 0, "corrupted response: ", <<>>))
        ELSE IF ~RefGiven(ref) /\ head = None
        THEN \* null[1]
             Rejected(Err("TypeError", 0,
                          "Cannot read properties of null", <<>>))
        ELSE LET searchTerms ==
                     RefTerms(ref) \o (IF RefGiven(ref) THEN <<>> ELSE head)
             IN  Fulfilled(PickResult(Matches(StripHeader(lines), searchTerms)))

----------------------------------------------------------------------------
(* handleRequest: the responses *)

\* CallerStatus passing every status on.
StatusAsIs(status) == status

\* status >= 500 && status <= 599 ? 502 : status
CallerStatus(status) == IF status >= 500 /\ status <= 599 THEN 502 ELSE status

\* The .then handler.
ThenResponse(result) ==
    IF result # None
    THEN Response(200, "application/json", "", result, NoErr)
    ELSE Response(404, "text/plain", "ref not found", None, NoErr)

\* The .catch handler.
CatchResponse(err) ==
    IF err.type = "TypeError"
    THEN Response(400, "text/plain", err.text, None, NoErr)
    ELSE IF err.status # 0
    THEN Response(CallerStatus(err.status), "text/plain",
                  "failed to fetch git repo info (status, message)", None, err)
    ELSE Response(500, "text/plain", "failed to fetch git repo info: ",
                  None, err)

----------------------------------------------------------------------------
(* The invocation *)

Requests ==
    [owner : Owners, repo : Repos, ref : Refs,
     paramToken : ParamTokens, headerToken : HeaderTokens]

Init ==
    /\ pc = "received"
    /\ request \in Requests
    /\ outbound = <<>>
    /\ remote = NoRemote
    /\ settled = Pending
    /\ responses = <<>>

\* handleRequest reads the request and calls resolve, which throws on a
\* missing owner or repo and otherwise issues the outbound request.
Resolve ==
    /\ pc = "received"
    /\ IF Invalid(request.owner, request.repo)
       THEN /\ settled' = Rejected(Err("TypeError", 0,
                              "owner and repo are mandatory parameters", <<>>))
            /\ pc' = "settled"
            /\ UNCHANGED outbound
       ELSE /\ outbound' = Append(outbound,
                              FetchRequest(request.owner, request.repo,
                                           Token(request)))
            /\ pc' = "fetching"
            /\ UNCHANGED settled
    /\ UNCHANGED <<request, remote, responses>>

\* The outbound call, or the reading of its body, fails: the platform
\* rejects with a TypeError (the Fetch standard's network error) or with
\* another Error (a runtime's own), and resolve rejects with the same.
FetchFails ==
    /\ pc = "fetching"
    /\ \E type \in {"TypeError", "Error"} :
          /\ remote' = [NoRemote EXCEPT !.kind = "failed"]
          /\ settled' = Rejected(Err(type, 0, "network error", <<>>))
    /\ pc' = "settled"
    /\ UNCHANGED <<request, outbound, responses>>

\* The outbound call completes with a status that is not ok.
RemoteRefuses ==
    /\ pc = "fetching"
    /\ \E status \in RemoteStatuses, text \in ErrorTexts :
          /\ ~Ok(status)
          /\ remote' = [kind |-> "response", status |-> status,
                        body |-> <<>>, text |-> text]
          /\ settled' = Rejected(RemoteError(status, text, request.owner,
                                             request.repo, Token(request)))
    /\ pc' = "settled"
    /\ UNCHANGED <<request, outbound, responses>>

\* The outbound call completes ok with an advertisement.
RemoteAdvertises ==
    /\ pc = "fetching"
    /\ \E status \in RemoteStatuses, data \in Advertisements :
          /\ Ok(status)
          /\ remote' = [kind |-> "response", status |-> status,
                        body |-> data, text |-> ""]
          /\ settled' = ParseAdvertisement(data, request.ref)
    /\ pc' = "settled"
    /\ UNCHANGED <<request, outbound, responses>>

\* resolve's promise is fulfilled: the .then handler answers.
Then ==
    /\ pc = "settled"
    /\ settled.state = "fulfilled"
    /\ responses' = Append(responses, ThenResponse(settled.value))
    /\ pc' = "responded"
    /\ UNCHANGED <<request, outbound, remote, settled>>

\* Catch throwing the error on instead of answering.
CatchRethrows ==
    /\ pc = "settled"
    /\ settled.state = "rejected"
    /\ pc' = "unhandled"
    /\ UNCHANGED <<request, outbound, remote, settled, responses>>

\* resolve's promise is rejected: the .catch handler answers.
Catch ==
    /\ pc = "settled"
    /\ settled.state = "rejected"
    /\ responses' = Append(responses, CatchResponse(settled.err))
    /\ pc' = "responded"
    /\ UNCHANGED <<request, outbound, remote, settled>>

Next ==
    \/ Resolve
    \/ FetchFails
    \/ RemoteRefuses
    \/ RemoteAdvertises
    \/ Then
    \/ Catch

Spec == Init /\ [][Next]_vars

----------------------------------------------------------------------------
(* Vocabulary of the properties *)

Responded == pc = "responded" /\ Len(responses) = 1
TheResponse == responses[1]

\* The outbound call completed ok; AdLines are the lines of its body.
Advertised == remote.kind = "response" /\ remote.status \in 200..299
AdLines == Split(remote.body, LF)

OwnerAndRepo ==
    request.owner \notin {NULL, ""} /\ request.repo \notin {NULL, ""}
RefSupplied == request.ref \notin {None, Some(<<>>)}
ShortRef == RefSupplied /\ ~StartsWith(request.ref[1], REFS)
CredentialSupplied ==
    request.paramToken \notin {NULL, ""} \/ request.headerToken \notin {NULL, ""}

\* line is `<token> <name>`: two space-separated parts, the second one name.
TwoPart(line, name) ==
    LET n == Len(line) - Len(name)
    IN  /\ n >= 1
        /\ SubSeq(line, n + 1, Len(line)) = name
        /\ line[n] = SP
        /\ \A k \in 1..(n - 1) : line[k] # SP

\* The hash token of such a line without its 4-character length.
HashOf(line, name) == SubSeq(line, 5, Len(line) - Len(name) - 1)

\* The lines after the two header lines that are two-part lines for name.
RefLines(lines, name) ==
    {i \in 3..Len(lines) : TwoPart(lines[i], name)}

First(S) == CHOOSE i \in S : \A j \in S : i <= j

\* The names line holds as `symref=HEAD:<name>`.
KnownNames == {HEADS \o Main, TAGS \o Main}
SymrefNames(line) ==
    {name \in KnownNames :
        \E i \in 1..Len(line) :
            LET e == i + Len(SYMREF \o name) - 1
            IN  /\ e <= Len(line)
                /\ SubSeq(line, i, e) = SYMREF \o name
                /\ (e = Len(line) \/ line[e + 1] = SP)}

Found(line, name) ==
    Fulfilled(Some([sha |-> HashOf(line, name), fqRef |-> name]))

----------------------------------------------------------------------------
(* Properties *)

\* C1: a request whose owner or repo is empty or missing is answered with
\* status 400, and no outbound request is issued at any point of it.
C1_MissingOwnerOrRepoIs400 ==
    ~OwnerAndRepo =>
        /\ outbound = <<>>
        /\ Responded => TheResponse.status = 400

C1_Witness ==
    /\ Responded
    /\ request.owner = "adobe"
    /\ request.repo = ""
    /\ request.headerToken = "htok"
    /\ RefSupplied
    /\ TheResponse.status = 400
    /\ outbound = <<>>

\* C2, as claimed: with owner, repo and ref non-empty, a line
\* `<len><sha> refs/heads/<ref>` anywhere in a successful advertisement
\* makes resolve return that sha with fqRef refs/heads/<ref>.
C2_AnyHeadsLineResolves ==
    (pc = "settled" /\ OwnerAndRepo /\ RefSupplied /\ Advertised) =>
        LET lines == AdLines
            heads == HEADS \o request.ref[1]
        IN  \A i \in 1..Len(lines) :
                TwoPart(lines[i], heads) => settled = Found(lines[i], heads)

\* C2, amended: with owner and repo non-empty and ref a short name, a line
\* `<len><sha> refs/heads/<ref>` that stands after the first two lines of a
\* successful advertisement, with no two-part line for refs/heads/<ref> or
\* refs/tags/<ref> between the first two lines and itself, makes resolve
\* return that sha, without the 4 characters of length, and fqRef
\* refs/heads/<ref>, whatever the other lines are.
C2_FirstHeadsLineResolves ==
    (pc = "settled" /\ OwnerAndRepo /\ ShortRef /\ Advertised) =>
        LET lines == AdLines
            heads == HEADS \o request.ref[1]
            tags == TAGS \o request.ref[1]
            either == RefLines(lines, heads) \cup RefLines(lines, tags)
        IN  \A i \in RefLines(lines, heads) :
                (\A j \in 3..(i - 1) : j \notin either)
                    => settled = Found(lines[i], heads)

C2_Witness ==
    /\ pc = "settled" /\ OwnerAndRepo /\ ShortRef /\ Advertised
    /\ Len(AdLines) = 4
    /\ AdLines[1] = Pkt(ShaC, HEADS \o Main)
    /\ AdLines[3] = Pkt(ShaB, HEADS \o Main) \o <<SP, "x">>
    /\ AdLines[4] = Pkt(ShaA, HEADS \o Main)
    /\ settled = Fulfilled(Some([sha |-> ShaA, fqRef |-> HEADS \o Main]))

\* C3: for a short ref, when the advertisement holds after its first two
\* lines a two-part line for refs/heads/<ref> and one for refs/tags/<ref>,
\* resolve returns the sha and name of whichever comes first.
C3_FirstOfBranchAndTagWins ==
    (pc = "settled" /\ OwnerAndRepo /\ ShortRef /\ Advertised) =>
        LET lines == AdLines
            heads == HEADS \o request.ref[1]
            tags == TAGS \o request.ref[1]
            hs == RefLines(lines, heads)
            ts == RefLines(lines, tags)
        IN  (hs # {} /\ ts # {}) =>
                settled = IF First(hs) < First(ts)
                          THEN Found(lines[First(hs)], heads)
                          ELSE Found(lines[First(ts)], tags)

C3_Witness ==
    /\ pc = "settled" /\ OwnerAndRepo /\ ShortRef /\ Advertised
    /\ RefLines(AdLines, HEADS \o Main) = {4}
    /\ RefLines(AdLines, TAGS \o Main) = {3}
    /\ settled = Fulfilled(Some([sha |-> ShaB, fqRef |-> TAGS \o Main]))

\* C4: with ref absent or empty and line 2 of a successful advertisement of
\* at least 3 lines holding symref=HEAD:<name>, resolve returns the sha of
\* the first two-part line for <name> after the two header lines, with
\* fqRef <name>, and absent when there is no such line.
C4_DefaultBranchResolves ==
    (pc = "settled" /\ OwnerAndRepo /\ ~RefSupplied /\ Advertised) =>
        LET lines == AdLines
        IN  Len(lines) >= 3 =>
                \A name \in SymrefNames(lines[2]) :
                    LET at == RefLines(lines, name)
                    IN  settled = IF at # {} THEN Found(lines[First(at)], name)
                                  ELSE Fulfilled(None)

C4_Witness ==
    /\ pc = "settled" /\ OwnerAndRepo /\ request.ref = None /\ Advertised
    /\ Len(AdLines) = 4
    /\ SymrefNames(AdLines[2]) = {HEADS \o Main}
    /\ AdLines[3] = Pkt(ShaC, HEADS \o Main)
    /\ AdLines[4] = Pkt(ShaA, HEADS \o Main)
    /\ settled = Fulfilled(Some([sha |-> ShaC, fqRef |-> HEADS \o Main]))

\* C5: a remote 404, or a remote 401 when no credential was supplied, is
\* answered with status 404 and the failure `repository not found:
\* <owner>/<repo>`; a remote 401 with a credential supplied stays 401.
C5_RepositoryNotFound ==
    (Responded /\ remote.kind = "response") =>
        /\ (remote.status = 404 \/ (remote.status = 401 /\ ~CredentialSupplied))
              => /\ TheResponse.status = 404
                 /\ TheResponse.err.text = "repository not found: "
                 /\ TheResponse.err.args = <<request.owner, "/", request.repo>>
        /\ (remote.status = 401 /\ CredentialSupplied)
              => /\ TheResponse.status = 401
                 /\ TheResponse.err.text # "repository not found: "

C5_Witness ==
    /\ Responded
    /\ remote.kind = "response"
    /\ remote.status = 401
    /\ ~CredentialSupplied
    /\ TheResponse.status = 404

\* C6: any other remote status s that is not ok is answered with 502 when
\* s is 5xx and with s itself otherwise; a failure carrying a remote status
\* is never answered with a 5xx other than 502.
C6_RemoteStatusMapping ==
    Responded =>
        /\ ( /\ remote.kind = "response"
             /\ remote.status \notin 200..299
             /\ remote.status # 404
             /\ ~(remote.status = 401 /\ ~CredentialSupplied) )
              => TheResponse.status =
                     IF remote.status \in 500..599 THEN 502 ELSE remote.status
        /\ settled.err.status # 0
              => TheResponse.status \notin (500..599) \ {502}

C6_Witness ==
    /\ Responded
    /\ remote.kind = "response"
    /\ remote.status = 503
    /\ TheResponse.status = 502

\* C7: a failure of resolve that carries no status and is not the missing
\* owner/repo validation error is answered with status 500; here the case
\* of a successful outbound call whose advertisement resolve fails on (fewer
\* than 3 lines, or no symref=HEAD: on line 2 while ref is absent).
C7_UnparsedAdvertisementIs500 ==
    ( /\ Responded
      /\ OwnerAndRepo
      /\ Advertised
      /\ settled.state = "rejected"
      /\ settled.err.status = 0 )
        => TheResponse.status = 500

\* C8, as claimed: with both credentials given and different, the outbound
\* Authorization header carries the x-github-token header's value.
C8_HeaderTokenPreferred ==
    ( /\ outbound # <<>>
      /\ request.paramToken \notin {NULL, ""}
      /\ request.headerToken \notin {NULL, ""}
      /\ request.paramToken # request.headerToken )
        => outbound[1].authorization =
               <<"Basic ", "base64", "any_user:", request.headerToken>>

\* C8, amended: with both credentials given and different, the outbound
\* Authorization header carries the GITHUB_TOKEN parameter's value; the
\* header's value is used only when the parameter is absent or empty.
C8_ParamTokenPreferred ==
    outbound # <<>> =>
        outbound[1].authorization =
            IF request.paramToken \notin {NULL, ""}
            THEN <<"Basic ", "base64", "any_user:", request.paramToken>>
            ELSE IF request.headerToken \notin {NULL, ""}
            THEN <<"Basic ", "base64", "any_user:", request.headerToken>>
            ELSE <<>>

C8_Witness ==
    /\ outbound # <<>>
    /\ request.paramToken = "ptok"
    /\ request.headerToken = "htok"
    /\ outbound[1].authorization = <<"Basic ", "base64", "any_user:", "ptok">>

\* C9: when the advertisement has at least 3 lines, the search terms are
\* defined, and no line after the first two is a two-part line for a search
\* term, resolve returns absent and the answer is 404 `ref not found`; a
\* reference on a header line or on a line of more parts is not found.
C9_Terms(lines) ==
    IF RefSupplied
    THEN IF ShortRef
         THEN {HEADS \o request.ref[1], TAGS \o request.ref[1]}
         ELSE {request.ref[1]}
    ELSE SymrefNames(lines[2])

C9_NoMatchIsRefNotFound ==
    /\ (pc = "settled" /\ OwnerAndRepo /\ Advertised) =>
          LET lines == AdLines
          IN  ( /\ Len(lines) >= 3
                /\ C9_Terms(lines) # {}
                /\ \A name \in C9_Terms(lines) : RefLines(lines, name) = {} )
                  => settled = Fulfilled(None)
    /\ (Responded /\ settled = Fulfilled(None)) =>
          /\ TheResponse.status = 404
          /\ TheResponse.text = "ref not found"

C9_Witness ==
    /\ OwnerAndRepo /\ Advertised /\ Responded
    /\ request.ref = Some(Main)
    /\ Len(AdLines) = 4
    /\ AdLines[1] = Pkt(ShaA, HEADS \o Main)
    /\ AdLines[2] = Pkt(ShaB, TAGS \o Main)
    /\ AdLines[3] = Pkt(ShaB, HEADS \o Main) \o <<SP, "x">>
    /\ TheResponse.status = 404
    /\ TheResponse.text = "ref not found"

\* C10: an invocation issues at most one outbound request and never
\* another once one is out; every step takes it further, it cannot stop
\* before it has answered, and it ends with exactly one response.
Rank(p) ==
    CASE p = "received" -> 0
      [] p = "fetching" -> 1
      [] p = "settled" -> 2
      [] OTHER -> 3

C10_OneRequestOneResponse ==
    /\ [](Len(outbound) <= 1 /\ Len(responses) <= 1)
    /\ [](pc = "responded" => Len(responses) = 1)
    /\ [](pc # "responded" => ENABLED Next)
    /\ [][/\ Rank(pc') > Rank(pc)
          /\ outbound # <<>> => outbound' = outbound]_vars

C10_Witness ==
    /\ Responded
    /\ Len(outbound) = 1
    /\ OwnerAndRepo /\ request.ref = None /\ Advertised
    /\ Len(AdLines) = 3
    /\ SymrefNames(AdLines[2]) = {}
    /\ settled.state = "rejected"

====
